---- MODULE Spec2Model ----
(***************************************************************************)
(* atomic-arena: a fixed-capacity generational arena whose indices are     *)
(* reserved through a shared Controller (an atomic free-list) and whose    *)
(* values are stored by a single-owner Arena that threads a doubly linked  *)
(* list of occupied slots through the slot array.                          *)
(*                                                                         *)
(* Spec        : one caller at a time, every operation runs to completion, *)
(*               Arena operations are given indices the Controller issued. *)
(* SpecForeign : as Spec, but Arena operations are given any in-range      *)
(*               Index (stale, forged, or of another arena).               *)
(* SpecConc    : threads run Controller::try_reserve and the owner runs    *)
(*               insert / insert_with_index / remove, one atomic load or   *)
(*               store per step.                                           *)
(* SpecRemoveRace : one thread running try_reserve against the owner's     *)
(*               insert_with_index and remove only.                        *)
(* SpecLifo    : as Spec, with one value and longer runs of removals, for  *)
(*               the order in which freed slots are given out again.       *)
(* SpecAnyCapacity : as Spec, for arenas of every capacity from 0 up.       *)
(***************************************************************************)
EXTENDS Integers, Sequences, FiniteSets, TLC

\* ----------------------------------------------------------------- bounds
\* capacity given to Arena::new
Capacity == 3
\* capacity given to Arena::new where the callers' steps interleave
ConcCapacity == 2
\* successful removals in a run (caps the generation counters, so usize
\* wraparound is never reached)
MaxRemovals == 1
\* threads holding a Controller clone, besides the Arena's owner
NumThreads == 2
\* calls of try_reserve a thread makes when its steps interleave with others'
MaxCalls == 2
\* the reservations counted per slot: from here on the count stands for "more"
MaxCount == 2
\* successful removals in a run of SpecLifo
MaxLifoRemovals == 3
\* the values stored (T)
Data == {"a", "b"}

\* ------------------------------------------------------------ value types
\* usize::MAX; only its lying outside every slot position matters, so it is
\* the largest integer the model checker holds
NO_NEXT_FREE_SLOT == 2147483647

None == [tag |-> "None"]
Some(x) == [tag |-> "Some", value |-> x]
Ok(x) == [tag |-> "Ok", value |-> x]
Err(e) == [tag |-> "Err", error |-> e]
Panic(msg) == [tag |-> "Panic", msg |-> msg]
ArenaFull == "ArenaFull"
IndexNotReserved == "IndexNotReserved"
Unit == "()"

Index(i, g) == [index |-> i, generation |-> g]

Free == [tag |-> "Free"]
Occupied(data, previous, next) ==
    [tag |-> "Occupied", data |-> data,
     previous_occupied_slot_index |-> previous,
     next_occupied_slot_index |-> next]

IsPanic(x) == "panic" \in DOMAIN x
Poisoned(msg) == [panic |-> msg]

\* --------------------------------------------------------- ControllerInner
ControllerSlot(free, generation, next_free_slot_index) ==
    [free |-> free, generation |-> generation,
     next_free_slot_index |-> next_free_slot_index]

\* a wrong ControllerInner::new: the last slot too is given a successor
ControllerInner_new_LastLinked(capacity) ==
    [slots |-> [i \in 0 .. capacity - 1 |-> ControllerSlot(TRUE, 0, i + 1)],
     first_free_slot_index |-> 0]

\* ControllerInner::new. For capacity 0 the closure (and its capacity - 1)
\* is never evaluated.
ControllerInner_new(capacity) ==
    [slots |-> [i \in 0 .. capacity - 1 |->
                  ControllerSlot(TRUE, 0,
                      IF i < capacity - 1 THEN i + 1 ELSE NO_NEXT_FREE_SLOT)],
     first_free_slot_index |-> 0]

\* the atomic accesses (all Ordering::SeqCst)
LoadFirst(c) == c.first_free_slot_index
StoreFirst(c, v) == [c EXCEPT !.first_free_slot_index = v]
StoreFree(c, i, b) == [c EXCEPT !.slots[i].free = b]
LoadNext(c, i) == c.slots[i].next_free_slot_index
StoreNext(c, i, v) == [c EXCEPT !.slots[i].next_free_slot_index = v]
LoadGeneration(c, i) == c.slots[i].generation
FetchAddGeneration(c, i) == [c EXCEPT !.slots[i].generation = @ + 1]

InBounds(c, i) == i \in DOMAIN c.slots

\* a wrong ControllerInner::try_reserve: the head is not moved on
try_reserve_HeadKept(c) ==
    LET first_free_slot_index == LoadFirst(c) IN
    IF first_free_slot_index = NO_NEXT_FREE_SLOT
    THEN [controller |-> c, result |-> Err(ArenaFull)]
    ELSE IF ~InBounds(c, first_free_slot_index)
    THEN [controller |-> c, result |-> Panic("index out of bounds")]
    ELSE LET c1 == StoreFree(c, first_free_slot_index, FALSE)
         IN [controller |-> c1,
             result |-> Ok(Index(first_free_slot_index,
                                 LoadGeneration(c1, first_free_slot_index)))]

\* a wrong ControllerInner::try_reserve: the slot's free flag is not cleared
try_reserve_FlagKept(c) ==
    LET first_free_slot_index == LoadFirst(c) IN
    IF first_free_slot_index = NO_NEXT_FREE_SLOT
    THEN [controller |-> c, result |-> Err(ArenaFull)]
    ELSE IF ~InBounds(c, first_free_slot_index)
    THEN [controller |-> c, result |-> Panic("index out of bounds")]
    ELSE LET c2 == StoreFirst(c, LoadNext(c, first_free_slot_index))
         IN [controller |-> c2,
             result |-> Ok(Index(first_free_slot_index,
                                 LoadGeneration(c2, first_free_slot_index)))]

\* a wrong ControllerInner::try_reserve: the head is not compared with
\* NO_NEXT_FREE_SLOT
try_reserve_NoFullCheck(c) ==
    LET first_free_slot_index == LoadFirst(c) IN
    IF ~InBounds(c, first_free_slot_index)
    THEN [controller |-> c, result |-> Panic("index out of bounds")]
    ELSE LET c1 == StoreFree(c, first_free_slot_index, FALSE)
             c2 == StoreFirst(c1, LoadNext(c1, first_free_slot_index))
         IN [controller |-> c2,
             result |-> Ok(Index(first_free_slot_index,
                                 LoadGeneration(c2, first_free_slot_index)))]

\* ControllerInner::try_reserve, run without interruption
try_reserve(c) ==
    LET first_free_slot_index == LoadFirst(c) IN
    IF first_free_slot_index = NO_NEXT_FREE_SLOT
    THEN [controller |-> c, result |-> Err(ArenaFull)]
    ELSE IF ~InBounds(c, first_free_slot_index)
    THEN [controller |-> c, result |-> Panic("index out of bounds")]
    ELSE LET c1 == StoreFree(c, first_free_slot_index, FALSE)
             c2 == StoreFirst(c1, LoadNext(c1, first_free_slot_index))
         IN [controller |-> c2,
             result |-> Ok(Index(first_free_slot_index,
                                 LoadGeneration(c2, first_free_slot_index)))]

\* a wrong ControllerInner::free: the free flag is not set
free_FlagKept(c, index) ==
    LET c2 == FetchAddGeneration(c, index)
        c3 == StoreNext(c2, index, LoadFirst(c2))
    IN StoreFirst(c3, index)

\* a wrong ControllerInner::free: the freed slot keeps its old successor
free_NextKept(c, index) ==
    LET c1 == StoreFree(c, index, TRUE)
        c2 == FetchAddGeneration(c1, index)
    IN StoreFirst(c2, index)

\* a wrong ControllerInner::free: the generation is not raised
free_SameGeneration(c, index) ==
    LET c1 == StoreFree(c, index, TRUE)
        c3 == StoreNext(c1, index, LoadFirst(c1))
    IN StoreFirst(c3, index)

\* ControllerInner::free, run without interruption
free(c, index) ==
    LET c1 == StoreFree(c, index, TRUE)
        c2 == FetchAddGeneration(c1, index)
        c3 == StoreNext(c2, index, LoadFirst(c2))
    IN StoreFirst(c3, index)

\* ------------------------------------------------------------------ Arena
ArenaSlot_new == [state |-> Free, generation |-> 0]

Arena_new(capacity) ==
    [slots |-> [i \in 0 .. capacity - 1 |-> ArenaSlot_new],
     first_occupied_slot_index |-> None]

IsOccupied(slot) == slot.state.tag = "Occupied"

set_previous_occupied_slot_index(a, i, index) ==
    IF IsPanic(a) THEN a
    ELSE IF IsOccupied(a.slots[i])
    THEN [a EXCEPT !.slots[i].state.previous_occupied_slot_index = index]
    ELSE Poisoned("expected a slot to be occupied, but it was not")

set_next_occupied_slot_index(a, i, index) ==
    IF IsPanic(a) THEN a
    ELSE IF IsOccupied(a.slots[i])
    THEN [a EXCEPT !.slots[i].state.next_occupied_slot_index = index]
    ELSE Poisoned("expected a slot to be occupied, but it was not")

\* a wrong Arena::capacity: the slots in use are counted
capacity_OccupiedOnly(a) ==
    Cardinality({i \in DOMAIN a.slots : IsOccupied(a.slots[i])})

capacity(a) == Cardinality(DOMAIN a.slots)

len(a) == Cardinality({i \in DOMAIN a.slots : IsOccupied(a.slots[i])})

\* a wrong Arena::insert_with_index: first_occupied_slot_index is not set
insert_with_index_HeadUnset(a, index, data) ==
    LET slot == a.slots[index.index] IN
    IF IsOccupied(slot)
    THEN [arena |-> a, result |-> Err(IndexNotReserved)]
    ELSE IF slot.generation # index.generation
    THEN [arena |-> a, result |-> Err(IndexNotReserved)]
    ELSE LET head == a.first_occupied_slot_index
             a1 == IF head.tag = "Some"
                   THEN set_previous_occupied_slot_index(a, head.value,
                                                         Some(index.index))
                   ELSE a
         IN IF IsPanic(a1)
            THEN [arena |-> a, result |-> Panic(a1.panic)]
            ELSE [arena |->
                    [a1 EXCEPT !.slots[index.index].state =
                                   Occupied(data, None, head)],
                  result |-> Ok(Unit)]

\* a wrong Arena::insert_with_index: the generation is raised on insertion
insert_with_index_BumpGeneration(a, index, data) ==
    LET slot == a.slots[index.index] IN
    IF IsOccupied(slot)
    THEN [arena |-> a, result |-> Err(IndexNotReserved)]
    ELSE IF slot.generation # index.generation
    THEN [arena |-> a, result |-> Err(IndexNotReserved)]
    ELSE LET head == a.first_occupied_slot_index
             a1 == IF head.tag = "Some"
                   THEN set_previous_occupied_slot_index(a, head.value,
                                                         Some(index.index))
                   ELSE a
         IN IF IsPanic(a1)
            THEN [arena |-> a, result |-> Panic(a1.panic)]
            ELSE [arena |->
                    [a1 EXCEPT !.slots[index.index] =
                                   [state |-> Occupied(data, None, head),
                                    generation |-> slot.generation + 1],
                               !.first_occupied_slot_index = Some(index.index)],
                  result |-> Ok(Unit)]

\* a wrong Arena::insert_with_index: the old head is not told of its new
\* predecessor
insert_with_index_NoPrevious(a, index, data) ==
    LET slot == a.slots[index.index] IN
    IF IsOccupied(slot)
    THEN [arena |-> a, result |-> Err(IndexNotReserved)]
    ELSE IF slot.generation # index.generation
    THEN [arena |-> a, result |-> Err(IndexNotReserved)]
    ELSE LET head == a.first_occupied_slot_index
         IN [arena |->
               [a EXCEPT !.slots[index.index].state =
                             Occupied(data, None, head),
                         !.first_occupied_slot_index = Some(index.index)],
             result |-> Ok(Unit)]

\* a wrong Arena::insert_with_index: the generation is not compared
insert_with_index_AnyGeneration(a, index, data) ==
    LET slot == a.slots[index.index] IN
    IF IsOccupied(slot)
    THEN [arena |-> a, result |-> Err(IndexNotReserved)]
    ELSE LET head == a.first_occupied_slot_index
             a1 == IF head.tag = "Some"
                   THEN set_previous_occupied_slot_index(a, head.value,
                                                         Some(index.index))
                   ELSE a
         IN IF IsPanic(a1)
            THEN [arena |-> a, result |-> Panic(a1.panic)]
            ELSE [arena |->
                    [a1 EXCEPT !.slots[index.index].state =
                                   Occupied(data, None, head),
                               !.first_occupied_slot_index = Some(index.index)],
                  result |-> Ok(Unit)]

\* a wrong Arena::insert_with_index: the new head is not linked to the old one
insert_with_index_NoNext(a, index, data) ==
    LET slot == a.slots[index.index] IN
    IF IsOccupied(slot)
    THEN [arena |-> a, result |-> Err(IndexNotReserved)]
    ELSE IF slot.generation # index.generation
    THEN [arena |-> a, result |-> Err(IndexNotReserved)]
    ELSE LET head == a.first_occupied_slot_index
             a1 == IF head.tag = "Some"
                   THEN set_previous_occupied_slot_index(a, head.value,
                                                         Some(index.index))
                   ELSE a
         IN IF IsPanic(a1)
            THEN [arena |-> a, result |-> Panic(a1.panic)]
            ELSE [arena |->
                    [a1 EXCEPT !.slots[index.index].state =
                                   Occupied(data, None, None),
                               !.first_occupied_slot_index = Some(index.index)],
                  result |-> Ok(Unit)]

\* Arena::insert_with_index
insert_with_index(a, index, data) ==
    LET slot == a.slots[index.index] IN
    IF IsOccupied(slot)
    THEN [arena |-> a, result |-> Err(IndexNotReserved)]
    ELSE IF slot.generation # index.generation
    THEN [arena |-> a, result |-> Err(IndexNotReserved)]
    ELSE LET head == a.first_occupied_slot_index
             a1 == IF head.tag = "Some"
                   THEN set_previous_occupied_slot_index(a, head.value,
                                                         Some(index.index))
                   ELSE a
         IN IF IsPanic(a1)
            THEN [arena |-> a, result |-> Panic(a1.panic)]
            ELSE [arena |->
                    [a1 EXCEPT !.slots[index.index].state =
                                   Occupied(data, None, head),
                               !.first_occupied_slot_index = Some(index.index)],
                  result |-> Ok(Unit)]

\* Arena::insert
insert(a, c, data) ==
    LET r == try_reserve(c) IN
    IF r.result.tag # "Ok"
    THEN [arena |-> a, controller |-> r.controller, result |-> r.result]
    ELSE LET w == insert_with_index(a, r.result.value, data) IN
         IF w.result.tag # "Ok"
         THEN [arena |-> a, controller |-> r.controller,
               result |-> Panic("called unwrap on an Err value")]
         ELSE [arena |-> w.arena, controller |-> r.controller,
               result |-> Ok(r.result.value)]

\* a wrong Arena::remove: generation += 1 comes before the match on the state
remove_take_BumpFree(a, index) ==
    LET slot == a.slots[index.index] IN
    IF slot.generation # index.generation
    THEN [arena |-> a, taken |-> None]
    ELSE IF ~IsOccupied(slot)
    THEN [arena |-> [a EXCEPT !.slots[index.index].generation = @ + 1],
          taken |-> None]
    ELSE [arena |-> [a EXCEPT !.slots[index.index] =
                        [state |-> Free, generation |-> slot.generation + 1]],
          taken |-> Some(slot.state)]

\* a wrong Arena::remove: the slot's generation is left as it was
remove_take_SameGeneration(a, index) ==
    LET slot == a.slots[index.index] IN
    IF slot.generation # index.generation
    THEN [arena |-> a, taken |-> None]
    ELSE IF ~IsOccupied(slot)
    THEN [arena |-> a, taken |-> None]
    ELSE [arena |-> [a EXCEPT !.slots[index.index].state = Free],
          taken |-> Some(slot.state)]

\* Arena::remove up to the call of Controller::free: the generation check,
\* mem::replace(&mut slot.state, Free) and slot.generation += 1
remove_take(a, index) ==
    LET slot == a.slots[index.index] IN
    IF slot.generation # index.generation
    THEN [arena |-> a, taken |-> None]
    ELSE IF ~IsOccupied(slot)
    THEN [arena |-> a, taken |-> None]
    ELSE [arena |-> [a EXCEPT !.slots[index.index] =
                        [state |-> Free, generation |-> slot.generation + 1]],
          taken |-> Some(slot.state)]

\* a wrong Arena::remove: the head is not moved when the head is removed
remove_unlink_HeadKept(a, i, previous_occupied_slot_index, next_occupied_slot_index) ==
    LET a1 == IF previous_occupied_slot_index.tag = "Some"
              THEN set_next_occupied_slot_index(
                       a, previous_occupied_slot_index.value,
                       next_occupied_slot_index)
              ELSE a
        a2 == IF next_occupied_slot_index.tag = "Some"
              THEN set_previous_occupied_slot_index(
                       a1, next_occupied_slot_index.value,
                       previous_occupied_slot_index)
              ELSE a1
    IN a2

\* a wrong Arena::remove: the previous slot's link is cleared instead of set to
\* the removed slot's successor
remove_unlink_WrongNext(a, i, previous_occupied_slot_index, next_occupied_slot_index) ==
    LET a1 == IF previous_occupied_slot_index.tag = "Some"
              THEN set_next_occupied_slot_index(
                       a, previous_occupied_slot_index.value,
                       None)
              ELSE a
        a2 == IF next_occupied_slot_index.tag = "Some"
              THEN set_previous_occupied_slot_index(
                       a1, next_occupied_slot_index.value,
                       previous_occupied_slot_index)
              ELSE a1
    IN IF IsPanic(a2) THEN a2
       ELSE IF a2.first_occupied_slot_index.tag = "None"
       THEN Poisoned("called unwrap on a None value")
       ELSE IF a2.first_occupied_slot_index.value = i
       THEN [a2 EXCEPT !.first_occupied_slot_index = next_occupied_slot_index]
       ELSE a2

\* Arena::remove after the call of Controller::free: the neighbours are
\* linked to each other and the head is moved
remove_unlink(a, i, previous_occupied_slot_index, next_occupied_slot_index) ==
    LET a1 == IF previous_occupied_slot_index.tag = "Some"
              THEN set_next_occupied_slot_index(
                       a, previous_occupied_slot_index.value,
                       next_occupied_slot_index)
              ELSE a
        a2 == IF next_occupied_slot_index.tag = "Some"
              THEN set_previous_occupied_slot_index(
                       a1, next_occupied_slot_index.value,
                       previous_occupied_slot_index)
              ELSE a1
    IN IF IsPanic(a2) THEN a2
       ELSE IF a2.first_occupied_slot_index.tag = "None"
       THEN Poisoned("called unwrap on a None value")
       ELSE IF a2.first_occupied_slot_index.value = i
       THEN [a2 EXCEPT !.first_occupied_slot_index = next_occupied_slot_index]
       ELSE a2

\* Arena::remove
remove(a, c, index) ==
    LET t == remove_take(a, index) IN
    IF t.taken.tag = "None"
    THEN [arena |-> t.arena, controller |-> c, result |-> None]
    ELSE LET c1 == free(c, index.index)
             a1 == remove_unlink(t.arena, index.index,
                       t.taken.value.previous_occupied_slot_index,
                       t.taken.value.next_occupied_slot_index)
         IN IF IsPanic(a1)
            THEN [arena |-> t.arena, controller |-> c1,
                  result |-> Panic(a1.panic)]
            ELSE [arena |-> a1, controller |-> c1,
                  result |-> Some(t.taken.value.data)]

\* a wrong Arena::get: the generation comparison is inverted
get_InvertedGeneration(a, index) ==
    LET slot == a.slots[index.index] IN
    IF slot.generation = index.generation THEN None
    ELSE IF IsOccupied(slot) THEN Some(slot.state.data) ELSE None

\* Arena::get
get(a, index) ==
    LET slot == a.slots[index.index] IN
    IF slot.generation # index.generation THEN None
    ELSE IF IsOccupied(slot) THEN Some(slot.state.data) ELSE None

\* Arena::get_mut
get_mut(a, index) ==
    LET slot == a.slots[index.index] IN
    IF slot.generation # index.generation THEN None
    ELSE IF IsOccupied(slot) THEN Some(slot.state.data) ELSE None

\* Iter::next driven to the end: the items yielded from next_occupied_slot_index
\* on. A Free slot on the way panics; a walk longer than the slot array never
\* ends (the list has a cycle).
RECURSIVE IterFrom(_, _, _)
IterFrom(a, next_occupied_slot_index, fuel) ==
    IF next_occupied_slot_index.tag = "None" THEN << >>
    ELSE IF fuel = 0 THEN << [diverges |-> TRUE] >>
    ELSE LET index == next_occupied_slot_index.value
             slot == a.slots[index]
         IN IF IsOccupied(slot)
            THEN << [index |-> Index(index, slot.generation),
                     data |-> slot.state.data] >>
                 \o IterFrom(a, slot.state.next_occupied_slot_index, fuel - 1)
            ELSE << [panic |-> "the iterator should not encounter a free slot"] >>

\* Arena::iter, collected
iter(a) == IterFrom(a, a.first_occupied_slot_index, capacity(a))

\* IterMut::next driven to the end
RECURSIVE IterMutFrom(_, _, _)
IterMutFrom(a, next_occupied_slot_index, fuel) ==
    IF next_occupied_slot_index.tag = "None" THEN << >>
    ELSE IF fuel = 0 THEN << [diverges |-> TRUE] >>
    ELSE LET index == next_occupied_slot_index.value
             slot == a.slots[index]
         IN IF IsOccupied(slot)
            THEN << [index |-> Index(index, slot.generation),
                     data |-> slot.state.data] >>
                 \o IterMutFrom(a, slot.state.next_occupied_slot_index, fuel - 1)
            ELSE << [panic |-> "the iterator should not encounter a free slot"] >>

\* Arena::iter_mut, collected
iter_mut(a) == IterMutFrom(a, a.first_occupied_slot_index, capacity(a))

\* ------------------------------------------------------------------ state
VARIABLES
    controller,    \* the ControllerInner all Controller clones share (Arc)
    arena,         \* the Arena's slots and first_occupied_slot_index
    last,          \* the last call that took effect, and what it returned
    held,          \* every Index a caller was given by try_reserve or insert
    stale,         \* the held indices whose slot was removed after they were given
    tickets,       \* indices Controller::try_reserve returned, not yet inserted with
    reservations,  \* per slot: reservations returned since the slot was last freed
    inserted,      \* the (Index, value) pairs inserted, in call order, while
                   \* nothing has been removed
    pc,            \* where each caller stands in its call
    loc,           \* each caller's local variables
    calls          \* per thread: the try_reserve calls it has begun

vars == << controller, arena, last, held, stale, tickets, reservations,
           inserted, pc, loc, calls >>

Slots == 0 .. Capacity - 1
Owner == 0
Threads == 1 .. NumThreads
Procs == {Owner} \cup Threads

\* every in-range Index a caller can make up or bring from another arena
AnyIndex == {Index(i, g) : i \in Slots, g \in 0 .. MaxRemovals}

RECURSIVE SumGenerations(_, _)
SumGenerations(a, n) ==
    IF n = 0 THEN 0 ELSE a.slots[n - 1].generation + SumGenerations(a, n - 1)

\* successful removals so far: each adds one to one slot's generation
Removals == SumGenerations(arena, capacity(arena))
NoRemoval == Removals = 0

NoLocals == [call |-> "none"]

\* Arena::new(n), and Controller clones handed to the threads
New(n) ==
    /\ controller = ControllerInner_new(n)
    /\ arena = Arena_new(n)
    /\ last = [op |-> "new", result |-> Ok(Unit)]
    /\ held = {}
    /\ stale = {}
    /\ tickets = {}
    /\ reservations = [i \in 0 .. n - 1 |-> 0]
    /\ inserted = << >>
    /\ pc = [p \in Procs |-> "idle"]
    /\ loc = [p \in Procs |-> NoLocals]
    /\ calls = [p \in Threads |-> 0]

Init == New(Capacity)

\* a panic ends the run
Alive == last.result.tag # "Panic"
Idle(p) == pc[p] = "idle"
Quiescent == \A p \in Procs : Idle(p)

\* a call that fails with an error or returns None leaves `last` as it is
Returned(op, result) ==
    IF result.tag \in {"Ok", "Some", "Panic"}
    THEN [op |-> op, result |-> result]
    ELSE last

Pair(index, data) == [index |-> index, data |-> data]

\* what a successful reservation adds to the history
Reserved(index) ==
    /\ held' = held \cup {index}
    /\ reservations' = [reservations EXCEPT
                          ![index.index] = IF @ < MaxCount THEN @ + 1 ELSE @]

\* what a successful insertion adds to the history
Inserted(index, data) ==
    inserted' = IF NoRemoval THEN Append(inserted, Pair(index, data))
                ELSE inserted

\* what a removal that found its entry adds to the history
Removed(index) ==
    /\ stale' = stale \cup {h \in held : h.index = index.index}
    /\ reservations' = [reservations EXCEPT ![index.index] = 0]
    /\ inserted' = << >>

\* ------------------------------------------ calls that run to completion
\* Controller::try_reserve on any clone
TryReserve ==
    /\ Alive /\ Quiescent
    /\ LET r == try_reserve(controller) IN
       /\ controller' = r.controller
       /\ last' = Returned("try_reserve", r.result)
       /\ IF r.result.tag = "Ok"
          THEN Reserved(r.result.value) /\ tickets' = tickets \cup {r.result.value}
          ELSE UNCHANGED << held, reservations, tickets >>
    /\ UNCHANGED << arena, stale, inserted, pc, loc, calls >>

\* Arena::insert
Insert(data) ==
    /\ Alive /\ Quiescent
    /\ LET r == insert(arena, controller, data) IN
       /\ controller' = r.controller
       /\ arena' = r.arena
       /\ last' = Returned("insert", r.result)
       /\ IF r.result.tag = "Ok"
          THEN Reserved(r.result.value) /\ Inserted(r.result.value, data)
          ELSE UNCHANGED << held, reservations, inserted >>
    /\ UNCHANGED << stale, tickets, pc, loc, calls >>

\* Arena::insert_with_index
InsertWithIndex(index, data) ==
    /\ Alive /\ Idle(Owner)
    /\ LET r == insert_with_index(arena, index, data) IN
       /\ arena' = r.arena
       /\ last' = Returned("insert_with_index", r.result)
       /\ IF r.result.tag = "Ok"
          THEN tickets' = tickets \ {index} /\ Inserted(index, data)
          ELSE UNCHANGED << tickets, inserted >>
    /\ UNCHANGED << controller, held, stale, reservations, pc, loc, calls >>

\* the links of the entry a remove takes out
Unlinked(state) ==
    [previous |-> state.previous_occupied_slot_index,
     next |-> state.next_occupied_slot_index]

\* Arena::remove, in a run of at most `bound` successful removals
RemoveWithin(index, bound) ==
    /\ Alive /\ Quiescent
    /\ LET t == remove_take(arena, index)
           r == remove(arena, controller, index)
       IN
       /\ r.result.tag # "None" => Removals < bound
       /\ controller' = r.controller
       /\ arena' = r.arena
       /\ IF r.result.tag # "None"
          THEN /\ Removed(index)
               /\ last' = [op |-> "remove", result |-> r.result,
                           unlinked |-> Unlinked(t.taken.value)]
          ELSE UNCHANGED << last, stale, reservations, inserted >>
    /\ UNCHANGED << held, tickets, pc, loc, calls >>

\* Arena::remove
Remove(index) == RemoveWithin(index, MaxRemovals)

\* the indices Arena::iter yields
Yielded == {iter(arena)[k].index : k \in 1 .. Len(iter(arena))}

Next ==
    \/ TryReserve
    \/ \E data \in Data : Insert(data)
    \/ \E index \in held, data \in Data : InsertWithIndex(index, data)
    \/ \E index \in held : Remove(index)

Spec == Init /\ [][Next]_vars

\* insert_with_index is given any in-range Index; remove is given the
\* indices the arena has handed out, by reservation or by iteration
NextForeign ==
    \/ TryReserve
    \/ \E data \in Data : Insert(data)
    \/ \E index \in AnyIndex, data \in Data : InsertWithIndex(index, data)
    \/ \E index \in held \cup Yielded : Remove(index)

SpecForeign == Init /\ [][NextForeign]_vars

\* longer runs of removals and reservations, with one value
OneValue == CHOOSE data \in Data : TRUE

NextLifo ==
    \/ TryReserve
    \/ Insert(OneValue)
    \/ \E index \in held : InsertWithIndex(index, OneValue)
    \/ \E index \in held : RemoveWithin(index, MaxLifoRemovals)

SpecLifo == Init /\ [][NextLifo]_vars

\* Arena::new is given any capacity from 0 up
InitAnyCapacity == \E n \in 0 .. Capacity : New(n)

SpecAnyCapacity == InitAnyCapacity /\ [][Next]_vars

\* ------------------------------------------------ one atomic access a step
\* A caller p runs ControllerInner::try_reserve: a thread through its
\* Controller clone, the owner inside Arena::insert.

\* let first_free_slot_index = self.first_free_slot_index.load(SeqCst)
\* and the return of Err(ArenaFull)
ReserveLoadFirst(p) ==
    /\ Alive /\ Idle(p)
    /\ IF p \in Threads
       THEN calls[p] < MaxCalls /\ calls' = [calls EXCEPT ![p] = @ + 1]
       ELSE UNCHANGED calls
    /\ LET first_free_slot_index == LoadFirst(controller) IN
       IF first_free_slot_index = NO_NEXT_FREE_SLOT
       THEN UNCHANGED << pc, loc, last >>
       ELSE IF ~InBounds(controller, first_free_slot_index)
       THEN /\ last' = Returned("try_reserve", Panic("index out of bounds"))
            /\ UNCHANGED << pc, loc >>
       ELSE /\ pc' = [pc EXCEPT ![p] = "reserve_store_free"]
            /\ loc' = [loc EXCEPT ![p] =
                         [call |-> "try_reserve",
                          first_free_slot_index |-> first_free_slot_index]]
            /\ UNCHANGED last
    /\ UNCHANGED << controller, arena, held, stale, tickets, reservations,
                    inserted >>

\* slot.free.store(false, SeqCst)
ReserveStoreFree(p) ==
    /\ Alive /\ pc[p] = "reserve_store_free"
    /\ controller' = StoreFree(controller, loc[p].first_free_slot_index, FALSE)
    /\ pc' = [pc EXCEPT ![p] = "reserve_load_next"]
    /\ UNCHANGED << arena, last, held, stale, tickets, reservations, inserted,
                    loc, calls >>

\* slot.next_free_slot_index.load(SeqCst)
ReserveLoadNext(p) ==
    /\ Alive /\ pc[p] = "reserve_load_next"
    /\ loc' = [loc EXCEPT ![p] =
                 [call |-> "try_reserve",
                  first_free_slot_index |-> loc[p].first_free_slot_index,
                  next_free_slot_index |->
                      LoadNext(controller, loc[p].first_free_slot_index)]]
    /\ pc' = [pc EXCEPT ![p] = "reserve_store_first"]
    /\ UNCHANGED << controller, arena, last, held, stale, tickets, reservations,
                    inserted, calls >>

\* self.first_free_slot_index.store(.., SeqCst)
ReserveStoreFirst(p) ==
    /\ Alive /\ pc[p] = "reserve_store_first"
    /\ controller' = StoreFirst(controller, loc[p].next_free_slot_index)
    /\ loc' = [loc EXCEPT ![p] =
                 [call |-> "try_reserve",
                  first_free_slot_index |-> loc[p].first_free_slot_index]]
    /\ pc' = [pc EXCEPT ![p] = "reserve_load_generation"]
    /\ UNCHANGED << arena, last, held, stale, tickets, reservations, inserted,
                    calls >>

\* slot.generation.load(SeqCst) and the return of Ok(Index) to a thread
ThreadReserveReturn(p) ==
    /\ Alive /\ p \in Threads /\ pc[p] = "reserve_load_generation"
    /\ LET index == Index(loc[p].first_free_slot_index,
                          LoadGeneration(controller, loc[p].first_free_slot_index))
       IN /\ Reserved(index)
          /\ tickets' = tickets \cup {index}
          /\ last' = Returned("try_reserve", Ok(index))
    /\ pc' = [pc EXCEPT ![p] = "idle"]
    /\ loc' = [loc EXCEPT ![p] = NoLocals]
    /\ UNCHANGED << controller, arena, stale, inserted, calls >>

\* slot.generation.load(SeqCst), the return of Ok(Index) to Arena::insert,
\* and the rest of Arena::insert: insert_with_index(index, data).unwrap()
OwnerInsertReturn(data) ==
    /\ Alive /\ pc[Owner] = "reserve_load_generation"
    /\ LET index == Index(loc[Owner].first_free_slot_index,
                          LoadGeneration(controller,
                                         loc[Owner].first_free_slot_index))
           w == insert_with_index(arena, index, data)
       IN IF w.result.tag = "Ok"
          THEN /\ arena' = w.arena
               /\ Reserved(index)
               /\ Inserted(index, data)
               /\ last' = Returned("insert", Ok(index))
          ELSE /\ last' = Returned("insert",
                                   Panic("called unwrap on an Err value"))
               /\ UNCHANGED << arena, held, reservations, inserted >>
    /\ pc' = [pc EXCEPT ![Owner] = "idle"]
    /\ loc' = [loc EXCEPT ![Owner] = NoLocals]
    /\ UNCHANGED << controller, stale, tickets, calls >>

\* The owner runs Arena::remove. Up to the first access of Controller::free:
\* the generation check, the slot emptied, its generation raised, and
\* slot.free.store(true, SeqCst)
RemoveTake(index) ==
    /\ Alive /\ Idle(Owner)
    /\ LET t == remove_take(arena, index) IN
       IF t.taken.tag = "None"
       THEN UNCHANGED << controller, arena, stale, reservations, inserted,
                         pc, loc >>
       ELSE /\ Removals < MaxRemovals
            /\ arena' = t.arena
            /\ controller' = StoreFree(controller, index.index, TRUE)
            /\ Removed(index)
            /\ pc' = [pc EXCEPT ![Owner] = "free_fetch_add"]
            /\ loc' = [loc EXCEPT ![Owner] =
                         [call |-> "remove", index |-> index.index,
                          taken |-> t.taken.value]]
    /\ UNCHANGED << last, held, tickets, calls >>

\* slot.generation.fetch_add(1, SeqCst)
FreeFetchAdd ==
    /\ Alive /\ pc[Owner] = "free_fetch_add"
    /\ controller' = FetchAddGeneration(controller, loc[Owner].index)
    /\ pc' = [pc EXCEPT ![Owner] = "free_load_first"]
    /\ UNCHANGED << arena, last, held, stale, tickets, reservations, inserted,
                    loc, calls >>

\* self.first_free_slot_index.load(SeqCst)
FreeLoadFirst ==
    /\ Alive /\ pc[Owner] = "free_load_first"
    /\ loc' = [loc EXCEPT ![Owner] =
                 [call |-> "remove", index |-> loc[Owner].index,
                  taken |-> loc[Owner].taken,
                  first_free_slot_index |-> LoadFirst(controller)]]
    /\ pc' = [pc EXCEPT ![Owner] = "free_store_next"]
    /\ UNCHANGED << controller, arena, last, held, stale, tickets, reservations,
                    inserted, calls >>

\* slot.next_free_slot_index.store(.., SeqCst)
FreeStoreNext ==
    /\ Alive /\ pc[Owner] = "free_store_next"
    /\ controller' = StoreNext(controller, loc[Owner].index,
                               loc[Owner].first_free_slot_index)
    /\ loc' = [loc EXCEPT ![Owner] =
                 [call |-> "remove", index |-> loc[Owner].index,
                  taken |-> loc[Owner].taken]]
    /\ pc' = [pc EXCEPT ![Owner] = "free_store_first"]
    /\ UNCHANGED << arena, last, held, stale, tickets, reservations, inserted,
                    calls >>

\* self.first_free_slot_index.store(index, SeqCst), and the rest of
\* Arena::remove: the neighbours linked, the head moved, Some(data) returned
FreeStoreFirst ==
    /\ Alive /\ pc[Owner] = "free_store_first"
    /\ controller' = StoreFirst(controller, loc[Owner].index)
    /\ LET taken == loc[Owner].taken
           a1 == remove_unlink(arena, loc[Owner].index,
                               taken.previous_occupied_slot_index,
                               taken.next_occupied_slot_index)
       IN IF IsPanic(a1)
          THEN /\ last' = Returned("remove", Panic(a1.panic))
               /\ UNCHANGED arena
          ELSE /\ arena' = a1
               /\ last' = [op |-> "remove", result |-> Some(taken.data),
                           unlinked |-> Unlinked(taken)]
    /\ pc' = [pc EXCEPT ![Owner] = "idle"]
    /\ loc' = [loc EXCEPT ![Owner] = NoLocals]
    /\ UNCHANGED << held, stale, tickets, reservations, inserted, calls >>

\* a step of a try_reserve in progress
ReserveStep(p) ==
    \/ ReserveStoreFree(p)
    \/ ReserveLoadNext(p)
    \/ ReserveStoreFirst(p)

\* a step of the Controller::free inside a remove in progress
FreeStep ==
    \/ FreeFetchAdd
    \/ FreeLoadFirst
    \/ FreeStoreNext
    \/ FreeStoreFirst

NextConc ==
    \/ \E p \in Procs : ReserveLoadFirst(p)
    \/ \E p \in Procs : ReserveStep(p)
    \/ \E p \in Threads : ThreadReserveReturn(p)
    \/ \E data \in Data : OwnerInsertReturn(data)
    \/ \E index \in held, data \in Data : InsertWithIndex(index, data)
    \/ \E index \in held : RemoveTake(index)
    \/ FreeStep

InitConc == New(ConcCapacity)

SpecConc == InitConc /\ [][NextConc]_vars

\* one thread reserving against the owner's insert_with_index and remove
RaceThread == CHOOSE p \in Threads : TRUE

NextRemoveRace ==
    \/ ReserveLoadFirst(RaceThread)
    \/ ReserveStep(RaceThread)
    \/ ThreadReserveReturn(RaceThread)
    \/ \E index \in held, data \in Data : InsertWithIndex(index, data)
    \/ \E index \in held : RemoveTake(index)
    \/ FreeStep

SpecRemoveRace == Init /\ [][NextRemoveRace]_vars

\* ------------------------------------------------------------ observations
\* the slot positions met by following next_free_slot_index from `from`,
\* as try_reserve would hand them out; `fuel` stops the walk on a cycle
RECURSIVE FreeListFrom(_, _, _)
FreeListFrom(c, from, fuel) ==
    IF from = NO_NEXT_FREE_SLOT \/ ~InBounds(c, from) \/ fuel = 0 THEN << >>
    ELSE << from >> \o FreeListFrom(c, LoadNext(c, from), fuel - 1)

FreeList(c) == FreeListFrom(c, LoadFirst(c), Cardinality(DOMAIN c.slots) + 1)
FreeListSet(c) == {FreeList(c)[k] : k \in 1 .. Len(FreeList(c))}

\* no call of the owner has changed the Arena
ArenaUntouched == arena = Arena_new(capacity(arena))

\* ------------------------------------------------------------------ claims

\* C1: when threads call Controller::try_reserve concurrently, no slot is
\* returned to two callers unless it was freed in between. Stated for runs in
\* which the Arena's owner has inserted and removed nothing, so that every
\* reservation counted was returned to a thread.
C1_NoDoubleReservation ==
    ArenaUntouched => \A i \in DOMAIN reservations : reservations[i] <= 1

\* C2: when the owner's remove (and the Controller::free inside it) runs
\* against one thread's try_reserve, every interleaving ends with a free-list
\* that holds exactly the slots that are neither reserved nor occupied.
C2_FreeListExact ==
    Quiescent =>
        FreeListSet(controller) =
            {i \in DOMAIN arena.slots :
                reservations[i] = 0 /\ ~IsOccupied(arena.slots[i])}

\* C3: an Index returned by try_reserve and not yet inserted with stays
\* insertable, whatever try_reserve, insert, insert_with_index and remove
\* calls come between.
C3_TicketStaysInsertable ==
    Idle(Owner) =>
        \A index \in tickets, data \in Data :
            insert_with_index(arena, index, data).result = Ok(Unit)

RECURSIVE SumTo(_, _)
SumTo(f, n) == IF n = 0 THEN 0 ELSE f[n - 1] + SumTo(f, n - 1)

\* reservations returned and not freed since
Outstanding == SumTo(reservations, Capacity)

\* C4: from a new arena of capacity N and with no removal, exactly the first N
\* reservations (try_reserve on any clone, Arena::insert, in any mix) succeed,
\* each with a slot position not given before and generation 0, and the
\* next attempt returns ArenaFull.
C4_ReservationExhaustion ==
    NoRemoval =>
        LET r == try_reserve(controller) IN
        /\ Outstanding = Cardinality(held)
        /\ \A i \in Slots : reservations[i] <= 1
        /\ \A h \in held : h.generation = 0
        /\ IF Outstanding < Capacity
           THEN /\ r.result.tag = "Ok"
                /\ r.result.value.generation = 0
                /\ reservations[r.result.value.index] = 0
                /\ \A data \in Data :
                       insert(arena, controller, data).result = r.result
           ELSE /\ r.result = Err(ArenaFull)
                /\ r.controller = controller
                /\ \A data \in Data :
                       insert(arena, controller, data).result = Err(ArenaFull)

\* all N slots given out, some by try_reserve and the last by insert, and the
\* next attempt refused
C4_Witness ==
    /\ NoRemoval
    /\ Outstanding = Capacity
    /\ tickets # {}
    /\ last.op = "insert"
    /\ try_reserve(controller).result = Err(ArenaFull)

\* C5: once an occupied slot has been removed, every Index given out for that
\* slot before the removal makes get, get_mut and remove return None in every
\* later state, also after the slot was reserved again and a value inserted.
C5_GenerationalSafety ==
    \A index \in stale :
        /\ get(arena, index) = None
        /\ get_mut(arena, index) = None
        /\ remove(arena, controller, index).result = None

\* a removed slot holds a new value while an index from before the removal
\* is still held
C5_Witness ==
    \E index \in stale :
        /\ IsOccupied(arena.slots[index.index])
        /\ get(arena, index) = None

\* C6: insert_with_index returns IndexNotReserved exactly when the slot is
\* Occupied or its generation differs from the index's, and then leaves every
\* slot and first_occupied_slot_index as they were (the Controller is not
\* touched by insert_with_index at all).
C6_IndexNotReservedExactly ==
    \A index \in AnyIndex, data \in Data :
        LET r == insert_with_index(arena, index, data)
            slot == arena.slots[index.index]
        IN /\ r.result \in {Ok(Unit), Err(IndexNotReserved)}
           /\ r.result = Err(IndexNotReserved)
                  <=> (IsOccupied(slot) \/ slot.generation # index.generation)
           /\ r.result = Err(IndexNotReserved) => r.arena = arena

\* both refusals are there to be made: a held index whose slot is Occupied,
\* and a held index whose slot is Free again with a later generation
C6_Witness ==
    /\ \E index \in held :
           /\ IsOccupied(arena.slots[index.index])
           /\ arena.slots[index.index].generation = index.generation
           /\ \A data \in Data :
                  insert_with_index(arena, index, data).result
                      = Err(IndexNotReserved)
    /\ \E index \in stale :
           /\ ~IsOccupied(arena.slots[index.index])
           /\ \A data \in Data :
                  insert_with_index(arena, index, data).result
                      = Err(IndexNotReserved)

\* C7: a value is attached to a slot only if the Controller has handed that
\* slot out and not yet taken it back: insert_with_index refuses an index
\* whose slot is still on the Controller's free-list.
C7_InsertOnlyIfReserved ==
    \A i \in Slots : IsOccupied(arena.slots[i]) => i \notin FreeListSet(controller)

Reverse(s) == [k \in 1 .. Len(s) |-> s[Len(s) + 1 - k]]

\* C8: after N successful insertions and no removal, iter and iter_mut yield
\* exactly those N (Index, value) pairs, newest first.
C8_NewestFirst ==
    NoRemoval =>
        /\ iter(arena) = Reverse(inserted)
        /\ iter_mut(arena) = Reverse(inserted)

\* the arena filled in an order other than the order of reservation
C8_Witness ==
    /\ NoRemoval
    /\ Len(inserted) = Capacity
    /\ inserted[1].index.index # 0
    /\ iter(arena)[Capacity] = inserted[1]

Without(s, i) == SelectSeq(s, LAMBDA e : e.index.index # i)

\* C9: a remove that finds its entry takes exactly that entry out of what
\* iter yields and leaves the order of the others; an insertion puts its
\* entry before all the others.
C9_OrderRepair ==
    [][\A i \in Slots :
          /\ (IsOccupied(arena.slots[i]) /\ ~IsOccupied(arena'.slots[i]))
                 => iter(arena') = Without(iter(arena), i)
          /\ (~IsOccupied(arena.slots[i]) /\ IsOccupied(arena'.slots[i]))
                 => /\ iter(arena') # << >>
                    /\ Head(iter(arena')).index.index = i
                    /\ Tail(iter(arena')) = iter(arena)]_vars

\* an entry was removed from between two others
C9_Witness ==
    /\ last.op = "remove"
    /\ last.unlinked.previous.tag = "Some"
    /\ last.unlinked.next.tag = "Some"
    /\ Len(iter(arena)) = 2

\* C10: wherever insert(v) succeeds and returns i: get(i) then returns v,
\* remove(i) returns v, get(i) after that returns None, and a second
\* remove(i) returns None and changes nothing.
C10_RoundTrip ==
    \A v \in Data :
        LET r1 == insert(arena, controller, v) IN
        r1.result.tag = "Ok" =>
            LET i == r1.result.value
                r2 == remove(r1.arena, r1.controller, i)
                r3 == remove(r2.arena, r2.controller, i)
            IN /\ get(r1.arena, i) = Some(v)
               /\ r2.result = Some(v)
               /\ get(r2.arena, i) = None
               /\ r3.result = None
               /\ r3.arena = r2.arena
               /\ r3.controller = r2.controller

\* insert has just put a value into a slot that was used before, and the
\* round trip from here gives the value back
C10_Witness ==
    /\ last.op = "insert"
    /\ last.result.tag = "Ok"
    /\ last.result.value.generation > 0
    /\ get(arena, last.result.value).tag = "Some"
    /\ remove(arena, controller, last.result.value).result
           = get(arena, last.result.value)

\* C11: remove with an index that try_reserve returned and nothing was
\* inserted with returns None and releases nothing: Arena and Controller stay
\* as they are, the slot is not on the free-list, so try_reserve does not
\* give it out again, and insert_with_index with that index still succeeds.
C11_RemoveKeepsReservation ==
    \A index \in tickets :
        LET r == remove(arena, controller, index) IN
        /\ r.result = None
        /\ r.arena = arena
        /\ r.controller = controller
        /\ index.index \notin FreeListSet(r.controller)
        /\ try_reserve(r.controller).result # Ok(index)
        /\ \A data \in Data :
               insert_with_index(r.arena, index, data).result = Ok(Unit)

\* an index reserved and not inserted with, next to occupied slots and free
\* slots, after a removal has put a slot back
C11_Witness ==
    /\ Removals > 0
    /\ len(arena) > 0
    /\ FreeList(controller) # << >>
    /\ \E index \in tickets :
           /\ index.generation > 0
           /\ remove(arena, controller, index).result = None

\* C12: when the free-list is empty, try_reserve returns ArenaFull and leaves
\* the Controller as it is, and Arena::insert returns ArenaFull and leaves the
\* Arena and the Controller as they are.
C12_ArenaFullNoEffect ==
    LoadFirst(controller) = NO_NEXT_FREE_SLOT =>
        /\ try_reserve(controller) =
               [controller |-> controller, result |-> Err(ArenaFull)]
        /\ \A data \in Data :
               insert(arena, controller, data) =
                   [arena |-> arena, controller |-> controller,
                    result |-> Err(ArenaFull)]

\* the free-list is empty again after a slot was freed and given out anew
C12_Witness ==
    /\ FreeList(controller) = << >>
    /\ Removals > 0
    /\ len(arena) > 0
    /\ \A data \in Data :
           insert(arena, controller, data).result = Err(ArenaFull)

\* the positions of the Occupied slots
OccupiedSlots(a) == {i \in DOMAIN a.slots : IsOccupied(a.slots[i])}

\* iter and iter_mut end after visiting every Occupied slot exactly once, and
\* len is the number of slots visited
LenIsTraversal(a) ==
    LET it == iter(a) IN
    /\ \A k \in 1 .. Len(it) : "index" \in DOMAIN it[k]
    /\ {it[k].index.index : k \in 1 .. Len(it)} = OccupiedSlots(a)
    /\ Len(it) = Cardinality(OccupiedSlots(a))
    /\ len(a) = Len(it)
    /\ iter_mut(a) = it

\* C13: len is the number of Occupied slots and the number of entries iter
\* yields; the walk from first_occupied_slot_index visits every Occupied slot
\* once and ends; len rises by 1 with each successful insertion, falls by 1
\* with each successful removal and is otherwise constant.
C13_LenCountsTraversal ==
    /\ []LenIsTraversal(arena)
    /\ [][
       /\ len(arena') - len(arena) =
              Cardinality(OccupiedSlots(arena') \ OccupiedSlots(arena))
                  - Cardinality(OccupiedSlots(arena) \ OccupiedSlots(arena'))
       /\ Cardinality(OccupiedSlots(arena') \ OccupiedSlots(arena))
              + Cardinality(OccupiedSlots(arena) \ OccupiedSlots(arena')) <= 1
       /\ OccupiedSlots(arena') \ OccupiedSlots(arena) # {}
              => len(arena') = len(arena) + 1
       /\ SumGenerations(arena', capacity(arena')) > Removals
              => len(arena') = len(arena) - 1]_vars

\* the arena is full again: len fell with a removal and rose with the
\* insertion after it
C13_Witness ==
    /\ Removals > 0
    /\ last.op = "insert_with_index"
    /\ len(arena) = Capacity
    /\ Len(iter(arena)) = Capacity

\* C14: capacity returns the value given to Arena::new in every reachable
\* state, whatever calls succeeded or failed before, and a failing or
\* succeeding call made from that state does not change it either.
C14_CapacityConstant ==
    /\ capacity(arena) = Capacity
    /\ \A index \in AnyIndex, data \in Data :
           /\ capacity(insert_with_index(arena, index, data).arena) = Capacity
           /\ capacity(insert(arena, controller, data).arena) = Capacity
           /\ capacity(remove(arena, controller, index).arena) = Capacity

\* insertions and a removal have happened, the arena is neither empty nor
\* full, and a call that fails is at hand
C14_Witness ==
    /\ Removals > 0
    /\ len(arena) \in 1 .. Capacity - 1
    /\ capacity(arena) = Capacity
    /\ \E index \in stale : remove(arena, controller, index).result = None

\* C15: with one owner making the calls, the occupied list is a consistent
\* doubly linked list: the head, if any, is Occupied and has no predecessor;
\* the successor of an Occupied slot is Occupied and points back to it; the
\* predecessor of an Occupied slot is Occupied and points forward to it; and
\* there is no head exactly when no slot is Occupied.
C15_DoublyLinked ==
    LET first == arena.first_occupied_slot_index
        prev(i) == arena.slots[i].state.previous_occupied_slot_index
        next(i) == arena.slots[i].state.next_occupied_slot_index
    IN
    /\ first.tag = "Some" =>
           /\ first.value \in OccupiedSlots(arena)
           /\ prev(first.value) = None
    /\ first.tag = "None" <=> OccupiedSlots(arena) = {}
    /\ \A i \in OccupiedSlots(arena) :
           /\ next(i).tag = "Some" =>
                  /\ next(i).value \in OccupiedSlots(arena)
                  /\ prev(next(i).value) = Some(i)
           /\ prev(i).tag = "Some" =>
                  /\ prev(i).value \in OccupiedSlots(arena)
                  /\ next(prev(i).value) = Some(i)

\* two entries are left linked to each other after the one between them
\* was removed
C15_Witness ==
    /\ last.op = "remove"
    /\ last.unlinked.previous.tag = "Some"
    /\ last.unlinked.next.tag = "Some"
    /\ arena.slots[last.unlinked.previous.value].state.next_occupied_slot_index
           = last.unlinked.next
    /\ arena.slots[last.unlinked.next.value].state.previous_occupied_slot_index
           = last.unlinked.previous

\* the Arena-side generation of every slot
Generations(a) == [i \in DOMAIN a.slots |-> a.slots[i].generation]

\* C16: a slot's Arena-side generation changes only in a remove that finds
\* the slot Occupied with a matching generation, and then by exactly 1;
\* insert, insert_with_index and a remove that returns None leave every
\* generation as it is (try_reserve, get, get_mut and the iterators have no
\* way to write to the Arena).
C16_GenerationOnlyOnRemove ==
    /\ [](LET gs == Generations(arena) IN
          /\ \A data \in Data :
                 /\ Generations(insert(arena, controller, data).arena) = gs
                 /\ \A index \in AnyIndex :
                        Generations(insert_with_index(arena, index, data).arena)
                            = gs
          /\ \A index \in AnyIndex :
                 LET t == remove_take(arena, index) IN
                 IF t.taken.tag = "None"
                 THEN Generations(remove(arena, controller, index).arena) = gs
                 ELSE /\ IsOccupied(arena.slots[index.index])
                      /\ arena.slots[index.index].generation = index.generation
                      /\ Generations(remove(arena, controller, index).arena)
                             = [gs EXCEPT ![index.index] = @ + 1])
    /\ [][\A i \in Slots :
              LET g == arena.slots[i].generation IN
              /\ arena'.slots[i].generation # g =>
                     /\ IsOccupied(arena.slots[i])
                     /\ ~IsOccupied(arena'.slots[i])
                     /\ arena'.slots[i].generation = g + 1
                     /\ remove(arena, controller, Index(i, g)).arena = arena'
              /\ (IsOccupied(arena.slots[i]) /\ ~IsOccupied(arena'.slots[i]))
                     => arena'.slots[i].generation = g + 1
         ]_vars

\* a removal has raised one generation by one, and a remove with the index
\* from before it is at hand and returns None
C16_Witness ==
    /\ last.op = "remove"
    /\ \E index \in stale :
           /\ arena.slots[index.index].generation = index.generation + 1
           /\ remove(arena, controller, index).result = None
    /\ \E i \in Slots : arena.slots[i].generation = 0 /\ IsOccupied(arena.slots[i])

\* C17: between the calls of a single owner, the Controller's generation of
\* every slot equals the Arena's, so the Index try_reserve returns carries the
\* generation insert_with_index and get compare with.
C17_GenerationsInLockstep ==
    Quiescent =>
        /\ \A i \in Slots :
               LoadGeneration(controller, i) = arena.slots[i].generation
        /\ LET r == try_reserve(controller) IN
           r.result.tag = "Ok" =>
               /\ r.result.value.generation
                      = arena.slots[r.result.value.index].generation
               /\ \A data \in Data :
                      LET w == insert_with_index(arena, r.result.value, data) IN
                      /\ w.result = Ok(Unit)
                      /\ get(w.arena, r.result.value) = Some(data)

\* try_reserve has returned an index of a slot that was removed before, with
\* the generation the Arena has for it
C17_Witness ==
    /\ last.op = "try_reserve"
    /\ last.result.value.generation > 0
    /\ last.result.value.generation
           = arena.slots[last.result.value.index].generation
    /\ last.result.value \in tickets

\* C18: between the calls of a single owner that uses only indices this
\* arena's Controller gave out, Controller and Arena agree about every slot:
\* a slot on the free-list is Free in the Arena and flagged free, an Occupied
\* slot is not on the free-list and is flagged not free, and no slot is on
\* the free-list twice.
C18_ControllerAgreesWithArena ==
    Quiescent =>
        /\ \A i \in FreeListSet(controller) :
               /\ ~IsOccupied(arena.slots[i])
               /\ controller.slots[i].free
        /\ \A i \in OccupiedSlots(arena) :
               /\ i \notin FreeListSet(controller)
               /\ ~controller.slots[i].free
        /\ Len(FreeList(controller)) = Cardinality(FreeListSet(controller))

\* after a removal: a freed slot on the free-list next to Occupied slots
C18_Witness ==
    /\ Removals > 0
    /\ OccupiedSlots(arena) # {}
    /\ \E i \in FreeListSet(controller) :
           /\ arena.slots[i].generation > 0
           /\ controller.slots[i].free
    /\ \A i \in OccupiedSlots(arena) : ~controller.slots[i].free

\* the slot positions in ascending order
Ascending(n) == [k \in 1 .. n |-> k - 1]

\* what try_reserve returns for a free-list fl
Issue(c, fl) ==
    IF fl = << >> THEN Err(ArenaFull)
    ELSE Ok(Index(Head(fl), LoadGeneration(c, Head(fl))))

\* C19: the free-list is last-in-first-out. A new arena gives out positions
\* 0, 1, ..., capacity-1 in this order; a removal puts its slot in front of
\* the free-list, so that the next try_reserve returns that slot with the
\* removed index's generation plus one; a reservation takes the front of the
\* free-list and leaves the rest in order; nothing else changes the free-list.
C19_FreeListLifo ==
    [][LET fl == FreeList(controller)
           after == FreeList(controller')
           freed == {i \in Slots :
                        arena'.slots[i].generation # arena.slots[i].generation}
       IN
       /\ held = {} => fl = Ascending(Capacity)
       /\ try_reserve(controller).result = Issue(controller, fl)
       /\ try_reserve(controller').result = Issue(controller', after)
       /\ IF freed # {}
          THEN \E i \in freed :
                   /\ freed = {i}
                   /\ after = << i >> \o fl
                   /\ try_reserve(controller').result
                          = Ok(Index(i, arena.slots[i].generation + 1))
                   /\ Index(i, arena.slots[i].generation) \in held
          ELSE IF held' # held
          THEN /\ fl # << >>
               /\ after = Tail(fl)
               /\ held' = held \cup {Issue(controller, fl).value}
          ELSE after = fl
      ]_vars

\* slots 2, 0, 1 were removed in this order and none reserved since: the next
\* three reservations return slots 1, 0, 2, each with generation 1
C19_Witness ==
    /\ Removals = 3
    /\ \A i \in Slots : arena.slots[i].generation = 1
    /\ FreeList(controller) = << 1, 0, 2 >>
    /\ LET r1 == try_reserve(controller)
           r2 == try_reserve(r1.controller)
           r3 == try_reserve(r2.controller)
       IN /\ r1.result = Ok(Index(1, 1))
          /\ r2.result = Ok(Index(0, 1))
          /\ r3.result = Ok(Index(2, 1))
          /\ try_reserve(r3.controller).result = Err(ArenaFull)

\* C20: with a single owner that uses only indices this arena's Controller
\* gave out, the insert_with_index inside Arena::insert succeeds whenever its
\* try_reserve does: insert never panics in unwrap; it returns ArenaFull, or
\* the new Index with the value stored at the head of the occupied list.
C20_InsertNeverPanics ==
    /\ Alive
    /\ \A data \in Data :
           LET t == try_reserve(controller)
               r == insert(arena, controller, data)
           IN
           /\ t.result.tag = "Ok" =>
                  /\ insert_with_index(arena, t.result.value, data).result
                         = Ok(Unit)
                  /\ r.result = t.result
                  /\ r.arena.first_occupied_slot_index
                         = Some(t.result.value.index)
                  /\ Head(iter(r.arena)) = Pair(t.result.value, data)
                  /\ Tail(iter(r.arena)) = iter(arena)
           /\ t.result.tag # "Ok" =>
                  /\ r.result = Err(ArenaFull)
                  /\ r.arena = arena

\* insert has reserved a slot that was removed before and stored its value
\* at the head, in front of an older entry
C20_Witness ==
    /\ last.op = "insert"
    /\ last.result.value.generation > 0
    /\ arena.first_occupied_slot_index = Some(last.result.value.index)
    /\ Len(iter(arena)) > 1
    /\ Head(iter(arena)).index = last.result.value

\* C21: Arena::insert on the owner thread never panics while other threads
\* call try_reserve on Controller clones: the index insert's try_reserve
\* returns names a slot that is Free in the Arena with a matching generation.
C21_InsertSafeUnderRace ==
    /\ last.op = "insert" => last.result.tag # "Panic"
    /\ pc[Owner] = "reserve_load_generation" =>
           LET i == loc[Owner].first_free_slot_index IN
           /\ ~IsOccupied(arena.slots[i])
           /\ arena.slots[i].generation = LoadGeneration(controller, i)

\* no entry of a traversal is the panic on a Free slot or an endless walk
NoPanicIn(it) == \A k \in 1 .. Len(it) : "index" \in DOMAIN it[k]

\* C22: with a single owner that uses only indices this arena's Controller
\* gave out, the internal-consistency panics are out of reach: Iter::next and
\* IterMut::next meet no Free slot, the set_*_occupied_slot_index calls of
\* insert_with_index and remove find their slot Occupied, and
\* first_occupied_slot_index is Some when remove unwraps it.
C22_NoInternalPanic ==
    /\ last.result.tag # "Panic"
    /\ NoPanicIn(iter(arena))
    /\ NoPanicIn(iter_mut(arena))
    /\ \A index \in held :
           LET t == remove_take(arena, index) IN
           /\ remove(arena, controller, index).result.tag # "Panic"
           /\ t.taken.tag = "Some" =>
                  /\ arena.first_occupied_slot_index.tag = "Some"
                  /\ ~IsPanic(remove_unlink(t.arena, index.index,
                         t.taken.value.previous_occupied_slot_index,
                         t.taken.value.next_occupied_slot_index))
           /\ \A data \in Data :
                  insert_with_index(arena, index, data).result.tag # "Panic"
    /\ \A data \in Data : insert(arena, controller, data).result.tag # "Panic"

\* after a removal and new insertions the arena is full: a remove of the
\* entry in the middle calls both setters, a remove of the head unwraps
\* first_occupied_slot_index, and the traversal passes three slots
C22_Witness ==
    /\ Removals > 0
    /\ Len(iter(arena)) = Capacity
    /\ \E index \in held :
           LET t == remove_take(arena, index) IN
           /\ t.taken.tag = "Some"
           /\ t.taken.value.previous_occupied_slot_index.tag = "Some"
           /\ t.taken.value.next_occupied_slot_index.tag = "Some"
           /\ remove(arena, controller, index).result.tag = "Some"

\* the walk along next_free_slot_index from first_free_slot_index stops at
\* NO_NEXT_FREE_SLOT: not at a position outside the slots, not in a cycle
FreeListEnds(c) ==
    LET fl == FreeList(c) IN
    /\ Len(fl) <= Cardinality(DOMAIN c.slots)
    /\ IF fl = << >>
       THEN LoadFirst(c) = NO_NEXT_FREE_SLOT
       ELSE LoadNext(c, fl[Len(fl)]) = NO_NEXT_FREE_SLOT

\* C23: between the calls of a single owner, the Controller's free-list is
\* well formed: the walk from first_free_slot_index reaches NO_NEXT_FREE_SLOT
\* without visiting a slot twice, and the slots on it are exactly the slots
\* whose free flag is true.
C23_FreeListWellFormed ==
    Quiescent =>
        /\ FreeListEnds(controller)
        /\ Len(FreeList(controller)) = Cardinality(FreeListSet(controller))
        /\ FreeListSet(controller) =
               {i \in DOMAIN controller.slots : controller.slots[i].free}

\* a freed slot is at the front of a free-list of two, and one slot is
\* flagged not free
C23_Witness ==
    /\ Len(FreeList(controller)) = 2
    /\ LoadGeneration(controller, Head(FreeList(controller))) > 0
    /\ controller.slots[Head(FreeList(controller))].free
    /\ \E i \in DOMAIN controller.slots : ~controller.slots[i].free
    /\ FreeListEnds(controller)

\* C24: first_free_slot_index is always NO_NEXT_FREE_SLOT or a position
\* smaller than the capacity, from construction on and for every capacity,
\* 0 included; so try_reserve never indexes the slots out of bounds, and
\* with no free slot it returns ArenaFull.
C24_HeadInBounds ==
    /\ \/ LoadFirst(controller) = NO_NEXT_FREE_SLOT
       \/ LoadFirst(controller) < capacity(arena)
    /\ try_reserve(controller).result.tag # "Panic"
    /\ (\A i \in DOMAIN controller.slots : ~controller.slots[i].free)
           => try_reserve(controller).result = Err(ArenaFull)

====
